---- MODULE Spec2Model ----
(***************************************************************************)
(* Model of kudu/util/debug-util.cc: the signal-based thread stack dump    *)
(* (DumpThreadStack / HandleStackTraceSignal / SignalCommunication) and    *)
(* the bounded hex encoding of a StackTrace (StringifyToHex).              *)
(*                                                                         *)
(* Every thread of Threads can call DumpThreadStack (position pc[t]) and   *)
(* can be interrupted by the SIGUSR1 handler (position hpc[t]).  While the *)
(* handler runs on a thread, the code it interrupted makes no step.        *)
(***************************************************************************)
EXTENDS Integers, Sequences, FiniteSets, TLC

\* Number of live threads of the process.
NumThreads == 2

\* debug-util.cc:146, the polling budget of DumpThreadStack.
kMaxPolls == 100

Threads == 1..NumThreads
\* A thread id with no live thread behind it: tgkill fails for it.
DeadTid == NumThreads + 1
Tids == Threads \cup {DeadTid}

\* The signal mask of each thread: the last thread blocks SIGUSR1 (as glibc's
\* timer thread does, debug-util.cc:140-142), the others do not.
SignalMask == [t \in Threads |-> t = NumThreads]

\* The two literal sentinel texts DumpThreadStack returns.
kUnableToDeliver == "(unable to deliver signal: process may have exited)"
kDidNotRespond == "(thread did not respond: maybe it is blocking signals)"

VARIABLES
    \* SignalCommunication g_comm
    stack,                \* thread whose frames g_comm.stack holds, 0: none yet
    target_tid,           \* g_comm.target_tid
    result_ready,         \* g_comm.result_ready
    lock,                 \* g_comm.lock
    \* statics of DumpThreadStack
    dumper_thread_lock_,  \* 0 free, 1 held
    initialized,          \* static bool initialized
    installs,             \* number of signal(SIGUSR1, ...) calls made
    \* per thread: DumpThreadStack
    pc,                   \* position in DumpThreadStack, "idle" outside
    tid,                  \* the argument of the call in progress
    i,                    \* the local poll counter
    sleeps,               \* SleepFor calls made by the call in progress
    ret,                  \* the text being returned
    \* per thread: signal state
    hpc,                  \* position in HandleStackTraceSignal, "none" outside
    pending,              \* SIGUSR1 is pending for the thread
    blocked,              \* the thread's signal mask blocks SIGUSR1
    \* process
    aborted,              \* a CHECK failed: the process is gone
    \* history
    captured_in_session,  \* g_comm.stack was written since target_tid was last set
    \* StringifyToHex
    hex,
    \* Symbolize
    sym

vars == <<stack, target_tid, result_ready, lock, dumper_thread_lock_, initialized,
          installs, pc, tid, i, sleeps, ret, hpc, pending, blocked, aborted,
          captured_in_session, hex, sym>>

commVars == <<stack, target_tid, result_ready, lock>>
dumpVars == <<dumper_thread_lock_, initialized, installs, pc, tid, i, sleeps, ret>>
sigVars == <<hpc, pending, blocked>>
protoVars == <<stack, target_tid, result_ready, lock, dumper_thread_lock_,
               initialized, installs, pc, tid, i, sleeps, ret, hpc, pending,
               blocked, aborted, captured_in_session>>

NoText == [text |-> "", of |-> 0]
Sentinel(s) == [text |-> s, of |-> 0]

\* StackTrace::Symbolize of the frames captured on thread `st`: the text is a
\* frame listing, identified here by the thread whose frames it lists.
Symbolize(st) == [text |-> "frames", of |-> st]

IsRendered(r) == r.text = "frames"

\* The code of thread t that DumpThreadStack runs makes a step only when no
\* handler is running on top of it, and only while the process lives.
Runs(t) == ~aborted /\ hpc[t] = "none"

\* The handler running on thread t makes a step.
HandlerRuns(t) == ~aborted /\ hpc[t] # "none"

----------------------------------------------------------------------------
\* SignalCommunication::Lock

\* Mutant: the lock is taken without looking at its value.
LockAcquire_NoCas == lock' = 1

\* Lock(): Acquire_CompareAndSwap(&g_comm.lock, 0, 1) succeeded.
LockAcquire == lock = 0 /\ lock' = 1

\* Mutant: the lock guard's destructor leaves the lock as it is.
LockRelease_Forgotten == lock' = lock

\* ~Lock(): Release_Store(&g_comm.lock, 0).
LockRelease == lock' = 0

----------------------------------------------------------------------------
\* HandleStackTraceSignal

\* The kernel delivers a pending SIGUSR1 to thread t: the handler starts on
\* top of whatever t was executing.  SIGUSR1 stays blocked while it runs.
Deliver(t) ==
    /\ ~aborted
    /\ initialized
    /\ pending[t] /\ ~blocked[t] /\ hpc[t] = "none"
    /\ pending' = [pending EXCEPT ![t] = FALSE]
    /\ hpc' = [hpc EXCEPT ![t] = "lock"]
    /\ UNCHANGED <<commVars, dumpVars, blocked, aborted, captured_in_session, hex, sym>>

\* line 86: SignalCommunication::Lock l;
HLock(t) ==
    /\ HandlerRuns(t) /\ hpc[t] = "lock"
    /\ LockAcquire
    /\ hpc' = [hpc EXCEPT ![t] = "check"]
    /\ UNCHANGED <<stack, target_tid, result_ready, dumpVars, pending, blocked,
                   aborted, captured_in_session, hex, sym>>

\* Mutant: the handler never takes a signal for stale.
TargetMismatch_NeverStale(t) == FALSE

\* Mutant: the comparison is inverted.
TargetMismatch_Inverted(t) == target_tid = t

\* line 94: g_comm.target_tid != my_tid
TargetMismatch(t) == target_tid # t

\* lines 93-96: compare the target with the own thread id.
HCheck(t) ==
    /\ HandlerRuns(t) /\ hpc[t] = "check"
    /\ hpc' = [hpc EXCEPT ![t] = IF TargetMismatch(t) THEN "skip" ELSE "collect"]
    /\ UNCHANGED <<commVars, dumpVars, pending, blocked, aborted,
                   captured_in_session, hex, sym>>

\* line 98: g_comm.stack.Collect(2) captures the frames of the running thread.
HCollect(t) ==
    /\ HandlerRuns(t) /\ hpc[t] = "collect"
    /\ stack' = t
    /\ captured_in_session' = TRUE
    /\ hpc' = [hpc EXCEPT ![t] = "publish"]
    /\ UNCHANGED <<target_tid, result_ready, lock, dumpVars, pending, blocked,
                   aborted, hex, sym>>

\* Mutant: the lock is released first and result_ready is published outside it.
HPublish_AfterRelease(t) ==
    /\ HandlerRuns(t) /\ hpc[t] = "publish"
    /\ lock' = 0
    /\ result_ready' = 1
    /\ hpc' = [hpc EXCEPT ![t] = "done"]
    /\ UNCHANGED <<stack, target_tid, dumpVars, pending, blocked, aborted,
                   captured_in_session, hex, sym>>

\* line 99: Release_Store(&g_comm.result_ready, 1), still under the lock.
HPublish(t) ==
    /\ HandlerRuns(t) /\ hpc[t] = "publish"
    /\ result_ready' = 1
    /\ hpc' = [hpc EXCEPT ![t] = "done"]
    /\ UNCHANGED <<stack, target_tid, lock, dumpVars, pending, blocked, aborted,
                   captured_in_session, hex, sym>>

\* lines 95 and 100: the handler returns, ~Lock() releases the lock.
HReturn(t) ==
    /\ HandlerRuns(t) /\ hpc[t] \in {"skip", "done"}
    /\ LockRelease
    /\ hpc' = [hpc EXCEPT ![t] = "none"]
    /\ UNCHANGED <<stack, target_tid, result_ready, dumpVars, pending, blocked,
                   aborted, captured_in_session, hex, sym>>

----------------------------------------------------------------------------
\* DumpThreadStack

\* A thread calls DumpThreadStack(d).
Call(t, d) ==
    /\ Runs(t) /\ pc[t] = "idle"
    /\ pc' = [pc EXCEPT ![t] = "mutex"]
    /\ tid' = [tid EXCEPT ![t] = d]
    /\ UNCHANGED <<commVars, dumper_thread_lock_, initialized, installs, i, sleeps,
                   ret, sigVars, aborted, captured_in_session, hex, sym>>

\* Mutant: the SpinLock lets a second thread in.
DumperLockFree_NoExclusion == TRUE

\* line 108: the SpinLock is taken only when no other thread holds it.
DumperLockFree == dumper_thread_lock_ = 0

\* line 108: SpinLockHolder h(&dumper_thread_lock_)
AcquireDumperLock(t) ==
    /\ Runs(t) /\ pc[t] = "mutex"
    /\ DumperLockFree
    /\ dumper_thread_lock_' = 1
    /\ pc' = [pc EXCEPT ![t] = "init"]
    /\ UNCHANGED <<commVars, initialized, installs, tid, i, sleeps, ret, sigVars, aborted,
                   captured_in_session, hex, sym>>


\* Mutant: the handler is installed on every call, whatever 'initialized' says.
InstallHandler_NoFlag(t) ==
    /\ Runs(t) /\ pc[t] = "init"
    /\ initialized' = TRUE /\ installs' = installs + 1
    /\ pc' = [pc EXCEPT ![t] = "lock1"]
    /\ UNCHANGED <<commVars, dumper_thread_lock_, tid, i, sleeps, ret, sigVars, aborted,
                   captured_in_session, hex, sym>>

\* lines 112-116: install the handler on first use.
InstallHandler(t) ==
    /\ Runs(t) /\ pc[t] = "init"
    /\ IF ~initialized
          THEN initialized' = TRUE /\ installs' = installs + 1
          ELSE UNCHANGED <<initialized, installs>>
    /\ pc' = [pc EXCEPT ![t] = "lock1"]
    /\ UNCHANGED <<commVars, dumper_thread_lock_, tid, i, sleeps, ret, sigVars, aborted,
                   captured_in_session, hex, sym>>

\* line 121: SignalCommunication::Lock l;
Lock1(t) ==
    /\ Runs(t) /\ pc[t] = "lock1"
    /\ LockAcquire
    /\ pc' = [pc EXCEPT ![t] = "set"]
    /\ UNCHANGED <<stack, target_tid, result_ready, dumper_thread_lock_,
                   initialized, installs, tid, i, sleeps, ret, sigVars, aborted,
                   captured_in_session, hex, sym>>

\* lines 122-124: CHECK_EQ(0, g_comm.target_tid); g_comm.target_tid = tid; ~Lock()
SetTarget(t) ==
    /\ Runs(t) /\ pc[t] = "set"
    /\ IF target_tid # 0
          THEN /\ aborted' = TRUE
               /\ UNCHANGED <<target_tid, lock, pc, captured_in_session>>
          ELSE /\ target_tid' = tid[t]
               /\ captured_in_session' = FALSE
               /\ LockRelease
               /\ pc' = [pc EXCEPT ![t] = "kill"]
               /\ UNCHANGED aborted
    /\ UNCHANGED <<stack, result_ready, dumper_thread_lock_, initialized, installs,
                   tid, i, sleeps, ret, sigVars, hex, sym>>

\* Mutant: the result of tgkill is not looked at.
TgkillFails_Ignored(d) == FALSE

\* line 129: tgkill(...) != 0, no live thread has the id d.
TgkillFails(d) == d \notin Threads

\* line 129: syscall(SYS_tgkill, getpid(), tid, SIGUSR1).  It fails for a tid
\* with no live thread.  A signal a thread sends to itself and does not block is
\* delivered before the system call returns; any other stays pending until the
\* kernel delivers it.
Tgkill(t) ==
    /\ Runs(t) /\ pc[t] = "kill"
    /\ IF TgkillFails(tid[t])
          THEN /\ pc' = [pc EXCEPT ![t] = "lock2"]
               /\ UNCHANGED <<pending, hpc>>
          ELSE /\ pc' = [pc EXCEPT ![t] = "poll"]
               /\ IF tid[t] = t /\ ~blocked[t]
                     THEN /\ hpc' = [hpc EXCEPT ![t] = "lock"]
                          /\ pending' = [pending EXCEPT ![t] = FALSE]
                     ELSE /\ pending' = [pending EXCEPT ![tid[t]] = TRUE]
                          /\ UNCHANGED hpc
    /\ UNCHANGED <<commVars, dumper_thread_lock_, initialized, installs, tid, i,
                   sleeps, ret, blocked, aborted, captured_in_session, hex, sym>>

\* line 131: SignalCommunication::Lock l;
Lock2(t) ==
    /\ Runs(t) /\ pc[t] = "lock2"
    /\ LockAcquire
    /\ pc' = [pc EXCEPT ![t] = "reset2"]
    /\ UNCHANGED <<stack, target_tid, result_ready, dumper_thread_lock_,
                   initialized, installs, tid, i, sleeps, ret, sigVars, aborted,
                   captured_in_session, hex, sym>>

\* lines 132-134: g_comm.target_tid = 0; ~Lock(); return the sentinel.
ResetAfterFailure(t) ==
    /\ Runs(t) /\ pc[t] = "reset2"
    /\ target_tid' = 0
    /\ captured_in_session' = FALSE
    /\ LockRelease
    /\ ret' = [ret EXCEPT ![t] = Sentinel(kUnableToDeliver)]
    /\ pc' = [pc EXCEPT ![t] = "return"]
    /\ UNCHANGED <<stack, result_ready, dumper_thread_lock_, initialized, installs,
                   tid, i, sleeps, sigVars, aborted, hex, sym>>

\* line 145: !Acquire_Load(&g_comm.result_ready)
NotReady == result_ready = 0

\* Mutant: the budget is one sleep short.
WithinBudget_OffByOne(n) == n < kMaxPolls - 1

\* line 146: i++ < 100, the value compared
WithinBudget(n) == n < kMaxPolls

\* lines 145-148: one evaluation of the loop condition.  i++ is evaluated only
\* when the first operand holds; the body is SleepFor(10 ms).
Poll(t) ==
    /\ Runs(t) /\ pc[t] = "poll"
    /\ IF NotReady
          THEN /\ i' = [i EXCEPT ![t] = i[t] + 1]
               /\ IF WithinBudget(i[t])
                     THEN /\ sleeps' = [sleeps EXCEPT ![t] = sleeps[t] + 1]
                          /\ UNCHANGED pc
                     ELSE /\ pc' = [pc EXCEPT ![t] = "lock3"]
                          /\ UNCHANGED sleeps
          ELSE /\ pc' = [pc EXCEPT ![t] = "lock3"]
               /\ UNCHANGED <<i, sleeps>>
    /\ UNCHANGED <<commVars, dumper_thread_lock_, initialized, installs, tid, ret,
                   sigVars, aborted, captured_in_session, hex, sym>>

\* line 151: SignalCommunication::Lock l;
Lock3(t) ==
    /\ Runs(t) /\ pc[t] = "lock3"
    /\ LockAcquire
    /\ pc' = [pc EXCEPT ![t] = "read"]
    /\ UNCHANGED <<stack, target_tid, result_ready, dumper_thread_lock_,
                   initialized, installs, tid, i, sleeps, ret, sigVars, aborted,
                   captured_in_session, hex, sym>>

\* Mutant: the verdict is taken from the way the poll loop ended.
SessionText_FromPoll ==
    LET t == CHOOSE x \in Threads : pc[x] = "read"
    IN  IF i[t] > kMaxPolls THEN Sentinel(kDidNotRespond) ELSE Symbolize(stack)

\* lines 154-158: the text of the session.
SessionText == IF result_ready = 0 THEN Sentinel(kDidNotRespond) ELSE Symbolize(stack)

\* Mutant: the session leaves target_tid as it is.
ResetTarget_Kept == target_tid

\* Mutant: the session leaves result_ready as it is.
ResetReady_Kept == result_ready

\* line 160: g_comm.target_tid = 0
ResetTarget == 0

\* line 161: g_comm.result_ready = 0
ResetReady == 0

\* lines 152-162: CHECK_EQ(tid, g_comm.target_tid); read; reset; ~Lock()
ReadAndReset(t) ==
    /\ Runs(t) /\ pc[t] = "read"
    /\ IF target_tid # tid[t]
          THEN /\ aborted' = TRUE
               /\ UNCHANGED <<target_tid, result_ready, lock, pc, ret,
                              captured_in_session>>
          ELSE /\ ret' = [ret EXCEPT ![t] = SessionText]
               /\ target_tid' = ResetTarget
               /\ result_ready' = ResetReady
               /\ captured_in_session' = FALSE
               /\ LockRelease
               /\ pc' = [pc EXCEPT ![t] = "return"]
               /\ UNCHANGED aborted
    /\ UNCHANGED <<stack, dumper_thread_lock_, initialized, installs, tid, i,
                   sleeps, sigVars, hex, sym>>

\* lines 134 and 163: return; ~SpinLockHolder() releases dumper_thread_lock_.
Return(t) ==
    /\ Runs(t) /\ pc[t] = "return"
    /\ dumper_thread_lock_' = 0
    /\ pc' = [pc EXCEPT ![t] = "idle"]
    /\ tid' = [tid EXCEPT ![t] = 0]
    /\ i' = [i EXCEPT ![t] = 0]
    /\ sleeps' = [sleeps EXCEPT ![t] = 0]
    /\ ret' = [ret EXCEPT ![t] = NoText]
    /\ UNCHANGED <<commVars, initialized, installs, sigVars, aborted,
                   captured_in_session, hex, sym>>

----------------------------------------------------------------------------
\* The protocol's specification

\* No StringifyToHex call is modelled beside the protocol.
HexAtRest == [st |-> "off"]

\* No call of Symbolize is being followed.
SymAtRest == [st |-> "off"]

InitProtocol ==
    /\ stack = 0
    /\ target_tid = 0
    /\ result_ready = 0
    /\ lock = 0
    /\ dumper_thread_lock_ = 0
    /\ initialized = FALSE
    /\ installs = 0
    /\ pc = [t \in Threads |-> "idle"]
    /\ tid = [t \in Threads |-> 0]
    /\ i = [t \in Threads |-> 0]
    /\ sleeps = [t \in Threads |-> 0]
    /\ ret = [t \in Threads |-> NoText]
    /\ hpc = [t \in Threads |-> "none"]
    /\ pending = [t \in Threads |-> FALSE]
    /\ blocked = SignalMask
    /\ aborted = FALSE
    /\ captured_in_session = FALSE

Init == InitProtocol /\ hex = HexAtRest /\ sym = SymAtRest

\* The steps of thread t other than an evaluation of the poll loop's condition.
StepButPoll(t) ==
    \/ \E d \in Tids : Call(t, d)
    \/ AcquireDumperLock(t)
    \/ InstallHandler(t)
    \/ Lock1(t)
    \/ SetTarget(t)
    \/ Tgkill(t)
    \/ Lock2(t)
    \/ ResetAfterFailure(t)
    \/ Lock3(t)
    \/ ReadAndReset(t)
    \/ Return(t)
    \/ Deliver(t)
    \/ HLock(t)
    \/ HCheck(t)
    \/ HCollect(t)
    \/ HPublish(t)
    \/ HReturn(t)

Next == \E t \in Threads : StepButPoll(t) \/ Poll(t)

Spec == Init /\ [][Next]_vars

----------------------------------------------------------------------------
\* The protocol under the timing assumption of lines 137-142: a live thread
\* that does not block SIGUSR1 responds within the ~1 s the poll loop gives it.

\* Thread d has nothing left to do for the signals sent to it: none is pending
\* and no handler is running on it.
Responded(d) == ~pending[d] /\ hpc[d] = "none"

\* The budget of t's poll loop does not run out while the target, a live
\* thread that does not block the signal, has not yet responded.
RespondsInTime(t) ==
    (NotReady /\ ~WithinBudget(i[t]) /\ tid[t] \in Threads /\ ~blocked[tid[t]])
        => Responded(tid[t])

\* An evaluation of the poll loop's condition under the timing assumption.
PollInTime(t) == RespondsInTime(t) /\ Poll(t)

NextPrompt == \E t \in Threads : StepButPoll(t) \/ PollInTime(t)

SpecPrompt == Init /\ [][NextPrompt]_vars

----------------------------------------------------------------------------
\* StackTrace::StringifyToHex

\* debug-util.h: the capacity of frames_ and the width of one hex token.
kMaxFrames == 16
kHexEntryLength == 16

\* Largest buffer size tried besides ToHexString's own.
MaxBufSize == 56

\* Mutant: the buffer has no room for the separators.
ToHexStringBufSize_NoSlack == kMaxFrames * kHexEntryLength + 1

\* line 228: char buf[kMaxFrames * (kHexEntryLength + 1) + 1]
ToHexStringBufSize == kMaxFrames * (kHexEntryLength + 1) + 1

\* The memory modelled: the buffer and the bytes behind it, so that a write
\* past the buffer is a write the model sees.
MemTop == ToHexStringBufSize + kHexEntryLength + 2

NUL == "NUL"
Garbage == "?"
HexChars == <<"0", "1", "2", "3", "4", "5", "6", "7",
              "8", "9", "a", "b", "c", "d", "e", "f">>

Pow16(n) == IF n = 0 THEN 1 ELSE IF n = 1 THEN 16 ELSE IF n = 2 THEN 256 ELSE 4096

\* A 64-bit address is four 16-bit words, most significant first.  The frames
\* come from one of two address patterns.
FrameAddr(pat, k) ==
    IF pat = 1 THEN <<0, 0, 64, 1097 + k>>
               ELSE <<65535, 65535, 65535 - k, 43981>>

\* FastHex64ToBuffer: the k-th of the 16 zero-padded hex digits of an address.
HexDigit(addr, k) == HexChars[((addr[(k \div 4) + 1] \div Pow16(3 - (k % 4))) % 16) + 1]

\* Mutant: the last digit of a token is not written.
WriteToken_OneShort(buf, dst, addr) ==
    [x \in DOMAIN buf |->
        IF x >= dst /\ x < dst + kHexEntryLength - 1 THEN HexDigit(addr, x - dst) ELSE buf[x]]

\* line 219: FastHex64ToBuffer(frames_[i], dst) writes kHexEntryLength digits at dst.
WriteToken(buf, dst, addr) ==
    [x \in DOMAIN buf |->
        IF x >= dst /\ x < dst + kHexEntryLength THEN HexDigit(addr, x - dst) ELSE buf[x]]

\* Mutant: no room is kept for the space and the terminator.
Limit_NoReserve(size) == size - kHexEntryLength

\* line 214: limit = dst + size - kHexEntryLength - 2, as an index relative to
\* buf (negative for a size below kHexEntryLength + 2: the pointer then lies
\* before the buffer and compares below dst).
Limit(size) == size - kHexEntryLength - 2

\* line 215: i < num_frames_ && dst < limit
LoopCond(h) == h.i < h.num_frames /\ h.dst < Limit(h.size)

Max(a, b) == IF a > b THEN a ELSE b

\* lines 216-220: one iteration of the loop.
StringifyStep ==
    /\ hex.st = "loop"
    /\ LoopCond(hex)
    /\ LET d == IF hex.i # 0 THEN hex.dst + 1 ELSE hex.dst
           b == IF hex.i # 0 THEN [hex.buf EXCEPT ![hex.dst] = " "] ELSE hex.buf
       IN hex' = [hex EXCEPT !.buf = WriteToken(b, d, FrameAddr(hex.pat, hex.i)),
                             !.dst = d + kHexEntryLength,
                             !.i = hex.i + 1,
                             !.wmax = Max(hex.wmax, d + kHexEntryLength - 1)]
    /\ UNCHANGED <<protoVars, sym>>

\* line 222: the loop is left, *dst = '\0'.
StringifyFinish ==
    /\ hex.st = "loop"
    /\ ~LoopCond(hex)
    /\ hex' = [hex EXCEPT !.buf = [hex.buf EXCEPT ![hex.dst] = NUL],
                          !.wmax = Max(hex.wmax, hex.dst),
                          !.st = "done"]
    /\ UNCHANGED <<protoVars, sym>>

\* StringifyToHex(buf, size) is entered with a trace of num_frames frames and
\* a buffer of unknown content.
HexStart(size, n, pat) ==
    [st |-> "loop", size |-> size, num_frames |-> n, pat |-> pat,
     buf |-> [x \in 0..MemTop |-> Garbage], dst |-> 0, i |-> 0, wmax |-> -1]

BufSizes == (0..MaxBufSize) \cup {ToHexStringBufSize}

InitHex ==
    /\ InitProtocol
    /\ \E size \in BufSizes, n \in 0..kMaxFrames, pat \in {1, 2} :
           hex = HexStart(size, n, pat)
    /\ sym = SymAtRest

NextHex == StringifyStep \/ StringifyFinish

SpecHex == InitHex /\ [][NextHex]_vars

\* The text a caller reads from buf: the characters before the first NUL.
CStringFrom(buf, k) ==
    LET nuls == {x \in k..MemTop : buf[x] = NUL}
        end  == IF nuls = {} THEN MemTop + 1
                ELSE CHOOSE x \in nuls : \A y \in nuls : x <= y
    IN  [x \in 1..(end - k) |-> buf[k + x - 1]]

CString(buf) == CStringFrom(buf, 0)

-----------------------------------------------------------------------------
\* StackTrace::Symbolize

\* The longest trace symbolized and the highest return address in it.
MaxSymFrames == 3
MaxAddr == 2

\* The return addresses a frame can hold, and the addresses a lookup can get.
Addrs == 1..MaxAddr
LookupAddrs == 0..MaxAddr

\* line 240: const char* symbol = "(unknown)";
kUnknown == "(unknown)"

\* The name google::Symbolize writes to tmp for an address it resolves.
Names == <<"main", "abort", "_start", "kudu::DumpThreadStack">>
NameOf(a) == Names[(a % Len(Names)) + 1]

\* Mutant: the return address itself is looked up.
LookupAddr_NoDecrement(p) == p

\* line 262: reinterpret_cast<char *>(pc) - 1
LookupAddr(p) == p - 1

\* lines 240 and 261-264: the symbol text of one frame.
SymbolFor(p, resolvable) ==
    IF LookupAddr(p) \in resolvable THEN NameOf(LookupAddr(p)) ELSE kUnknown

\* line 265: "    @ %*p  %s\n" with pc and symbol.
Line(p, symbol) == <<"    @ ", p, "  ", symbol, "\n">>

\* lines 236-265: one iteration of the loop.
SymbolizeStep ==
    /\ sym.st = "loop"
    /\ sym.i < sym.num_frames
    /\ LET p == sym.frames[sym.i + 1]
       IN  sym' = [sym EXCEPT !.ret = Append(@, Line(p, SymbolFor(p, sym.resolvable))),
                              !.i = @ + 1]
    /\ UNCHANGED <<protoVars, hex>>

\* lines 236 and 267: the loop is over, ret is returned.
SymbolizeReturn ==
    /\ sym.st = "loop"
    /\ ~(sym.i < sym.num_frames)
    /\ sym' = [sym EXCEPT !.st = "done"]
    /\ UNCHANGED <<protoVars, hex>>

\* A call of Symbolize on a trace with the given frames, in a process where
\* google::Symbolize resolves exactly the addresses of 'resolvable'.
SymStart(frames, resolvable) ==
    [st |-> "loop", frames |-> frames, num_frames |-> Len(frames),
     resolvable |-> resolvable, ret |-> <<>>, i |-> 0]

InitSym ==
    /\ InitProtocol
    /\ hex = HexAtRest
    /\ \E n \in 0..MaxSymFrames :
           \E frames \in [1..n -> Addrs], resolvable \in SUBSET LookupAddrs :
               sym = SymStart(frames, resolvable)

NextSym == SymbolizeStep \/ SymbolizeReturn

SpecSym == InitSym /\ [][NextSym]_vars

----------------------------------------------------------------------------
\* Properties

\* Thread t is between "target_tid set" and its return.
InSession(t) == pc[t] \in {"kill", "lock2", "reset2", "poll", "lock3", "read", "return"}

\* Thread t holds g_comm.lock in one of DumpThreadStack's critical sections.
HoldsLockInDump(t) == pc[t] \in {"set", "reset2", "read"}

\* C1: single-flight.  At most one caller is between setting target_tid and
\* returning, and no caller is about to write target_tid (or inside any part of
\* DumpThreadStack behind the SpinLock) while another caller's session is open.
C1_SingleFlight ==
    \A a, b \in Threads :
        a # b => ~(InSession(a) /\ pc[b] \notin {"idle", "mutex"})

\* Two callers at once: one polls with its target set, the other waits for
\* the SpinLock.
C1_Witness ==
    \E a, b \in Threads :
        a # b /\ pc[a] = "poll" /\ target_tid = tid[a] /\ pc[b] = "mutex"

C4_NoSpinOnOwnLock ==
    \A t \in Threads : ~(hpc[t] = "lock" /\ HoldsLockInDump(t))

C6_DeliveryFailure ==
    \A t \in Threads :
        (pc[t] \notin {"idle", "mutex"} /\ tid[t] \notin Threads) =>
            /\ pc[t] \notin {"poll", "lock3", "read"}
            /\ i[t] = 0 /\ sleeps[t] = 0
            /\ (pc[t] = "reset2" /\ ~aborted) => (lock = 1 /\ target_tid = tid[t])
            /\ pc[t] = "return" =>
                   (ret[t] = Sentinel(kUnableToDeliver) /\ target_tid = 0)

\* A call on the dead thread id is about to return, after an earlier session
\* has left a captured stack behind.
C6_Witness ==
    \E t \in Threads :
        pc[t] = "return" /\ tid[t] = DeadTid /\ stack # 0

C8_StaleHandlerStep ==
    \A t \in Threads :
        /\ (hpc[t] = "check" /\ target_tid # t /\ hpc'[t] # hpc[t]) =>
               /\ hpc'[t] = "skip"
               /\ UNCHANGED <<stack, result_ready, target_tid, ret, captured_in_session>>
        /\ (hpc[t] = "skip" /\ hpc'[t] # hpc[t]) =>
               /\ hpc'[t] = "none" /\ lock = 1 /\ lock' = 0
               /\ UNCHANGED <<stack, result_ready, target_tid, ret, captured_in_session>>

C8_StaleSignalIgnored == [][C8_StaleHandlerStep]_vars

\* A handler has found a mismatch while another thread's session is open,
\* and one has found target_tid = 0.
C8_Witness ==
    \E t \in Threads :
        hpc[t] = "skip" /\ target_tid # 0 /\ target_tid # t /\ lock = 1

\* C9: neither CHECK_EQ fires.  target_tid is 0 when a session is about to set
\* it, equals tid when the session re-acquires g_comm.lock after polling, and is
\* non-zero only between "target set" and "session reset" of one session.
C9_ChecksHold ==
    /\ ~aborted
    /\ \A t \in Threads :
           /\ pc[t] = "set" => target_tid = 0
           /\ pc[t] = "read" => target_tid = tid[t]
    /\ target_tid # 0 =>
           \E t \in Threads :
               /\ pc[t] \in {"kill", "lock2", "reset2", "poll", "lock3", "read"}
               /\ target_tid = tid[t]

\* A session passes its first CHECK_EQ after an earlier session captured a
\* stack, with a late signal still pending.
C9_Witness ==
    \E t \in Threads, u \in Threads :
        pc[t] = "set" /\ lock = 1 /\ stack # 0 /\ pending[u]

\* The buffer holds a terminated string: a NUL lies inside it.
Terminated(h) == \E k \in 0..(h.size - 1) : h.buf[k] = NUL

\* What C10 says of one call of StringifyToHex: no write at an index >= size
\* at any time, and once it has returned the buffer holds a terminated string,
\* which is empty for a trace without frames and for a size too small for one
\* token and its terminator.
HexBounded(h) ==
    /\ h.wmax < h.size
    /\ h.st = "done" =>
           /\ Terminated(h)
           /\ h.num_frames = 0 => CString(h.buf) = <<>>
           /\ h.size < kHexEntryLength + 1 => CString(h.buf) = <<>>

\* C10 as stated: for every size >= 0 and every frame count 0..kMaxFrames.
C10_Original == hex.st # "off" => HexBounded(hex)

\* C10 as amended: for every size >= 1 and every frame count 0..kMaxFrames.
C10_BoundedForPositiveSize ==
    (hex.st # "off" /\ hex.size >= 1) => HexBounded(hex)

\* The encoding stopped for lack of room after at least two tokens, in a
\* buffer whose last byte it would otherwise have passed.
C10_Witness ==
    /\ hex.st = "done" /\ hex.size >= 1
    /\ hex.i >= 2 /\ hex.i < hex.num_frames
    /\ hex.dst + kHexEntryLength + 1 >= hex.size

\* The four hex digits of one 16-bit word, most significant first.
Hex4(w) ==
    <<HexChars[(w \div 4096) + 1], HexChars[((w \div 256) % 16) + 1],
      HexChars[((w \div 16) % 16) + 1], HexChars[(w % 16) + 1]>>

\* The fixed-width token of an address: its four words in hex, in order.
TokenOf(addr) == Hex4(addr[1]) \o Hex4(addr[2]) \o Hex4(addr[3]) \o Hex4(addr[4])

\* The tokens of the first k frames, joined by single spaces.
RECURSIVE JoinedTokens(_, _)
JoinedTokens(pat, k) ==
    IF k = 0 THEN <<>>
    ELSE IF k = 1 THEN TokenOf(FrameAddr(pat, 0))
    ELSE JoinedTokens(pat, k - 1) \o <<" ">> \o TokenOf(FrameAddr(pat, k - 1))

\* C11: no partial token.  At every moment of StringifyToHex the bytes written
\* so far, and on return the string left in buf, are the complete tokens of the
\* first k frames (k = the frames encoded, 0 <= k <= num_frames), in order,
\* joined by single spaces, with no space before or after.
C11_WholeTokens ==
    hex.st # "off" =>
        /\ hex.i <= hex.num_frames
        /\ hex.dst = Len(JoinedTokens(hex.pat, hex.i))
        /\ \A x \in 0..(hex.dst - 1) : hex.buf[x] = JoinedTokens(hex.pat, hex.i)[x + 1]
        /\ hex.st = "done" => CString(hex.buf) = JoinedTokens(hex.pat, hex.i)

\* The encoding returned with three tokens of the second address pattern,
\* having left out later frames for lack of room.
C11_Witness ==
    /\ hex.st = "done" /\ hex.pat = 2 /\ hex.i = 3 /\ hex.num_frames > 3
    /\ Len(CString(hex.buf)) = 3 * kHexEntryLength + 2

\* The handler running on thread u holds g_comm.lock.
HandlerHoldsLock(u) == hpc[u] \in {"check", "collect", "publish", "skip", "done"}

\* The contexts that hold g_comm.lock: calls of DumpThreadStack and handlers.
LockHolders ==
    {<<"dump", t>> : t \in {x \in Threads : HoldsLockInDump(x)}}
        \cup {<<"handler", u>> : u \in {x \in Threads : HandlerHoldsLock(x)}}

\* C12: g_comm.lock is held by at most one context, and is 1 exactly when one
\* holds it; while a call is in its locked read no handler is anywhere between
\* its comparison and its return, so none is writing g_comm.stack; and when
\* the locked read finds result_ready set, the capture into g_comm.stack has
\* been completed, in this session, by the handler of the target.
C12_CaptureReadExclusion ==
    /\ Cardinality(LockHolders) <= 1
    /\ (lock = 1) <=> (LockHolders # {})
    /\ \A t \in Threads :
           pc[t] = "read" =>
               /\ \A u \in Threads : ~HandlerHoldsLock(u)
               /\ result_ready # 0 => (captured_in_session /\ stack = tid[t])

\* A call is in its locked read with result_ready set while a handler,
\* started for a second signal, waits for the lock.
C12_Witness ==
    \E t \in Threads, u \in Threads :
        pc[t] = "read" /\ result_ready = 1 /\ hpc[u] = "lock" /\ u = tid[t]

\* The store of result_ready and the state of the lock around it.
C13_PublishStep ==
    (result_ready = 0 /\ result_ready' = 1) =>
        /\ lock = 1 /\ lock' = 1
        /\ \E u \in Threads : hpc[u] = "publish" /\ hpc'[u] = "done"

\* C13 (as stated): the handler publishes result_ready only after releasing
\* the lock, so a polling call never sees result_ready set while a handler
\* still holds the lock.
C13_Original ==
    ~ \E t \in Threads, u \in Threads :
          pc[t] = "poll" /\ result_ready = 1 /\ HandlerHoldsLock(u)

\* C13 (amended): the handler stores result_ready while it still holds the
\* lock; the lock is released only when the handler returns.
C13_PublishedUnderLock == [][C13_PublishStep]_vars

\* A polling call can see result_ready set while the handler holds the lock.
C13_Witness ==
    \E t \in Threads :
        /\ pc[t] = "poll" /\ tid[t] # t /\ hpc[tid[t]] = "done"
        /\ result_ready = 1 /\ lock = 1

\* C14: within one session the handler captures into g_comm.stack and sets
\* result_ready at most once: no handler has just written g_comm.stack, and
\* is about to store result_ready again, while result_ready is already set and
\* the session has not yet reset it.
C14_CaptureOnce ==
    \A u \in Threads : hpc[u] = "publish" => result_ready = 0

\* The step that leaves the locked read of a session.
C15_ReadStep ==
    \A t \in Threads :
        (pc[t] = "read" /\ pc'[t] = "return") =>
            /\ (ret'[t] = Sentinel(kDidNotRespond)) <=> (result_ready = 0)
            /\ result_ready # 0 => ret'[t] = Symbolize(stack)

\* C15: the verdict of a session is taken from result_ready as read under the
\* lock, not from the way the poll loop ended: the timeout sentinel is
\* returned if and only if result_ready is 0 at the locked read, and the
\* rendered stack otherwise, also when the poll budget had run out.
C15_VerdictFromLockedRead == [][C15_ReadStep]_vars

\* A session whose poll loop ran out of budget returns the rendered stack.
C15_Witness ==
    \E t \in Threads :
        pc[t] = "return" /\ i[t] = kMaxPolls + 1 /\ IsRendered(ret[t])

\* The call of thread t is sending the signal, polling or sleeping, or waiting
\* for the lock after that.
Waiting(t) == pc[t] \in {"kill", "poll", "lock2", "lock3"}

\* C16: a call does not hold g_comm.lock while it sends the signal or while it
\* polls and sleeps: whenever a call is there and the lock is taken, a handler
\* holds it, so a handler waiting for the lock waits only for another handler.
C16_NoLockWhileWaiting ==
    \A t \in Threads :
        Waiting(t) =>
            /\ \A x \in Threads : ~HoldsLockInDump(x)
            /\ lock = 1 => \E u \in Threads : HandlerHoldsLock(u)

\* A handler takes the lock while the call that signalled it polls.
C16_Witness ==
    \E t \in Threads :
        pc[t] = "poll" /\ i[t] > 0 /\ tid[t] # t /\ hpc[tid[t]] = "check" /\ lock = 1

\* A signal has been sent, or a call is past the installation step.
PastInstall ==
    \/ \E u \in Threads : pending[u] \/ hpc[u] # "none"
    \/ \E t \in Threads : pc[t] \notin {"idle", "mutex", "init"}

\* C17: whatever the interleaving of first-time callers, signal() is called at
\* most once, and it has been called, exactly once, before any call goes on
\* to send a signal and before any signal is pending or handled.
C17_InstalledOnce ==
    /\ installs <= 1
    /\ initialized <=> (installs = 1)
    /\ PastInstall => installs = 1

\* Two callers entered before the installation; one has installed the handler
\* and sent its signal, the other still waits for dumper_thread_lock_.
C17_Witness ==
    \E t \in Threads, u \in Threads :
        /\ t # u /\ pc[t] = "poll" /\ i[t] = 0 /\ pc[u] = "mutex"
        /\ pending[tid[t]] /\ installs = 1

\* Thread t is inside a call of DumpThreadStack on its own thread id, and does
\* not block the signal.
SelfDump(t) == tid[t] = t /\ ~blocked[t] /\ pc[t] \notin {"idle", "mutex"}

\* C18: in a self-dump the handler runs on the calling thread while that
\* thread holds dumper_thread_lock_ but not g_comm.lock, so the handler gets
\* the lock, and the call returns the rendered stack.
C18_SelfDump ==
    \A t \in Threads :
        SelfDump(t) =>
            /\ hpc[t] # "none" => ~HoldsLockInDump(t)
            /\ pc[t] = "return" => IsRendered(ret[t])

\* C19: ToHexString never truncates.  With the buffer of ToHexString, a
\* finished StringifyToHex has encoded every frame: the string holds exactly
\* num_frames tokens separated by single spaces, for every frame count
\* 0..kMaxFrames.
C19_ToHexStringComplete ==
    (hex.st = "done" /\ hex.size = ToHexStringBufSize) =>
        /\ hex.i = hex.num_frames
        /\ CString(hex.buf) = JoinedTokens(hex.pat, hex.num_frames)
        /\ Len(CString(hex.buf)) =
               IF hex.num_frames = 0 THEN 0
               ELSE hex.num_frames * (kHexEntryLength + 1) - 1

\* ToHexString has encoded a trace of kMaxFrames frames.
C19_Witness ==
    /\ hex.st = "done" /\ hex.size = ToHexStringBufSize
    /\ hex.num_frames = kMaxFrames /\ hex.i = kMaxFrames
    /\ Len(CString(hex.buf)) = kMaxFrames * (kHexEntryLength + 1) - 1

\* C20: Symbolize emits exactly one line per frame, in the order of the
\* frames, whatever frames resolve: the symbol of a line is "(unknown)"
\* exactly when the lookup of that frame's address minus one fails, and the
\* name found at the address minus one otherwise; the pointer printed is
\* the frame's own address.
C20_OneLinePerFrame ==
    sym.st # "off" =>
        /\ Len(sym.ret) = sym.i /\ sym.i <= sym.num_frames
        /\ sym.st = "done" => Len(sym.ret) = sym.num_frames
        /\ \A k \in 1..Len(sym.ret) :
               /\ Len(sym.ret[k]) = 5
               /\ sym.ret[k][2] = sym.frames[k]
               /\ (sym.ret[k][4] = kUnknown) <=> ((sym.frames[k] - 1) \notin sym.resolvable)
               /\ (sym.frames[k] - 1) \in sym.resolvable =>
                      sym.ret[k][4] = NameOf(sym.frames[k] - 1)

\* A finished call on three frames: address 1 resolves and address 0 does
\* not, so the frames at 2 get the name found at 1 and the frame at 1, whose
\* own address resolves, gets "(unknown)".
C20_Witness ==
    /\ sym.st = "done" /\ sym.frames = <<2, 1, 2>> /\ sym.resolvable = {1}
    /\ sym.ret[1][4] = NameOf(1) /\ sym.ret[2][4] = kUnknown
    /\ sym.ret[3] = Line(2, NameOf(1))

====
